---- MODULE Spec2Model ----
(***************************************************************************)
(* A model of the identity tree of world-tree (src/src/tree/identity_tree.rs): *)
(* a canonical Merkle tree, an overlay of pending root transitions         *)
(* (tree_updates) and the leaf index (leaves).                             *)
(*                                                                         *)
(* Hashes are symbolic: a leaf value k is the tuple <<k>> and the Poseidon *)
(* compression of l and r is the pair <<l, r>>, so the hash is injective   *)
(* (collision free) and hashes of different levels never coincide.         *)
(***************************************************************************)
EXTENDS Integers, Sequences, FiniteSets, TLC

VARIABLES
    tree,             \* leaf layer of the canonical tree (self.tree)
    num_leaves,       \* leaves pushed onto the canonical tree so far
    tree_updates,     \* the overlay (self.tree_updates)
    leaves,           \* the leaf index (self.leaves)
    overflow_checks,  \* the build panics on integer overflow (debug profile)
    last,             \* the last call made, its arguments and how it ended
    chain,            \* the leaf layer at the head of the chain, as the
                      \* upstream watcher sees it
    chain_len,        \* leaf positions the chain has handed out
    appended,         \* append_updates has been called
    steps,            \* calls made so far
    distinct,         \* every hash inserted so far was new when inserted
    increasing,       \* every append_updates so far had a block number
                      \* greater than those of the overlay
    touched,          \* per overlay entry, the leaf indices of its own update
    tree_moved,       \* the canonical tree has changed since an entry that
                      \* is still in the overlay was appended
    leaf_updates,     \* a BTreeMap<Root, LeafUpdates> a caller has gathered
    pure_call         \* the last call of a free function and its result

\* the identity tree and what the history variables record of its calls
tree_vars == <<tree, num_leaves, tree_updates, leaves, overflow_checks, last,
               chain, chain_len, appended, distinct, increasing, touched,
               tree_moved>>

\* the inputs and results of the free functions
pure_vars == <<leaf_updates, pure_call>>

vars == <<tree, num_leaves, tree_updates, leaves, overflow_checks, last,
          chain, chain_len, appended, steps, distinct, increasing, touched,
          tree_moved, leaf_updates, pure_call>>

----------------------------------------------------------------------------
(* Bounds of the model *)

\* the hashes a caller inserts are <<1>> .. <<MaxHash>>
MaxHash == 2
\* block numbers of root descriptors are 0 .. MaxBlock
MaxBlock == 2
\* a LeafUpdates map touches at most MaxBatch leaves
MaxBatch == 2
\* a run makes at most MaxOps mutating calls
MaxOps == 3
\* the index functions are called for tree depths 1 .. MaxDepth
MaxDepth == 16

----------------------------------------------------------------------------
(* Hash primitive and index arithmetic *)

\* the depth given to IdentityTree::new
TreeDepth == 2

\* (u32::MAX) / 2: what (0 - 1) / 2 wraps to when overflow checks are off
U32MaxHalf == (2 ^ 30 - 1) * 2 + 1

ZERO == <<0>>

hash_node(l, r) == <<l, r>>

LeafHashes == {<<k>> : k \in 1..MaxHash}

NumLeafSlots == 2 ^ TreeDepth

LeafIdx == 0..(NumLeafSlots - 1)

\* a variant that takes 1 << tree_depth for the index of leaf 0
leaf_to_storage_idx_from_pow(leaf_idx, tree_depth) ==
    LET leaf_0 == 2 ^ tree_depth
    IN  leaf_0 + leaf_idx

leaf_to_storage_idx(leaf_idx, tree_depth) ==
    LET leaf_0 == (2 ^ tree_depth) - 1
    IN  leaf_0 + leaf_idx

storage_to_leaf_idx(storage_idx, tree_depth) ==
    LET leaf_0 == (2 ^ tree_depth) - 1
    IN  storage_idx - leaf_0

RECURSIVE ilog2(_)
ilog2(n) == IF n <= 1 THEN 0 ELSE 1 + ilog2(n \div 2)

\* a variant that takes the logarithm of index instead of index + 1
storage_idx_to_coords_of_index(index) ==
    LET depth == ilog2(index)
        offset == index - ((2 ^ depth) - 1)
    IN  <<depth, offset>>

storage_idx_to_coords(index) ==
    LET depth == ilog2(index + 1)
        offset == index - ((2 ^ depth) - 1)
    IN  <<depth, offset>>

----------------------------------------------------------------------------
(* The dynamic Merkle tree (semaphore's DynamicMerkleTree): its leaf layer  *)
(* is `tree`, the number of leaves pushed so far is `num_leaves`.          *)

RECURSIVE node_of(_, _, _)
node_of(layer, depth, offset) ==
    IF depth = TreeDepth
    THEN layer[offset]
    ELSE hash_node(node_of(layer, depth + 1, 2 * offset),
                   node_of(layer, depth + 1, 2 * offset + 1))

get_node(depth, offset) == node_of(tree, depth, offset)

tree_root == get_node(0, 0)

get_leaf(index) == tree[index]

\* the tree after set_leaf(index, value)
set_leaf(layer, index, value) == [layer EXCEPT ![index] = value]

\* the sibling branches of leaf leaf_idx, from the leaf up to the root:
\* Left(s) when the path node is a left child (s is its right sibling)
RECURSIVE proof_from(_, _)
proof_from(layer, node_idx) ==
    IF node_idx = 0 THEN <<>>
    ELSE LET sibling_idx == IF node_idx % 2 = 0 THEN node_idx - 1
                            ELSE node_idx + 1
             c == storage_idx_to_coords(sibling_idx)
             sibling == node_of(layer, c[1], c[2])
             branch == IF node_idx % 2 = 0
                       THEN [side |-> "Right", hash |-> sibling]
                       ELSE [side |-> "Left", hash |-> sibling]
         IN  <<branch>> \o proof_from(layer, (node_idx - 1) \div 2)

tree_proof(leaf_idx) ==
    proof_from(tree, leaf_to_storage_idx(leaf_idx, TreeDepth))

\* Proof::root: the root a proof yields when folded from a leaf hash
RECURSIVE proof_root(_, _)
proof_root(proof, hash) ==
    IF proof = <<>> THEN hash
    ELSE LET b == Head(proof)
         IN  proof_root(Tail(proof),
                        IF b.side = "Left" THEN hash_node(hash, b.hash)
                        ELSE hash_node(b.hash, hash))

----------------------------------------------------------------------------
(* Root descriptors and the overlay.  The overlay is a BTreeMap<Root, _>    *)
(* and Ord for Root compares block_number alone, so it holds one entry per *)
(* block number: tree_updates maps a block number to the stored key and    *)
(* its patch.                                                              *)

Root(hash, block_number) == [hash |-> hash, block_number |-> block_number]

NoRoot == [hash |-> <<>>, block_number |-> -1]

EmptyMap == [x \in {} |-> ZERO]

Blocks == 0..MaxBlock

\* BTreeMap::get / contains: the entry whose key compares Equal to root
overlay_get_key(root) == root.block_number

overlay_has(root) == overlay_get_key(root) \in DOMAIN tree_updates

Max(S) == CHOOSE x \in S : \A y \in S : y <= x

\* tree_updates.iter().last(): the patch of the entry with the greatest key
prev_update_of(tu) ==
    IF DOMAIN tu = {} THEN EmptyMap ELSE tu[Max(DOMAIN tu)].updates

----------------------------------------------------------------------------
TypeOK ==
    /\ tree \in [LeafIdx -> LeafHashes \cup {ZERO}]
    /\ num_leaves \in 0..NumLeafSlots
    /\ DOMAIN tree_updates \subseteq Blocks
    /\ DOMAIN leaves \subseteq LeafHashes \cup {ZERO}
    /\ overflow_checks \in BOOLEAN
    /\ chain \in [LeafIdx -> LeafHashes \cup {ZERO}]
    /\ chain_len \in 0..NumLeafSlots
    /\ appended \in BOOLEAN
    /\ steps \in 0..MaxOps
    /\ distinct \in BOOLEAN
    /\ increasing \in BOOLEAN
    /\ DOMAIN touched = DOMAIN tree_updates
    /\ tree_moved \in BOOLEAN

\* the object as a call finds it
Snapshot == [tree |-> tree, num_leaves |-> num_leaves,
             tree_updates |-> tree_updates, leaves |-> leaves]

NoSnapshot == [tree |-> <<>>, num_leaves |-> 0, tree_updates |-> <<>>,
               leaves |-> <<>>]

\* the record of a call: its arguments, the object before it (pre), how it
\* ended, and whether a u32 subtraction of it left the range of u32
Call(op) == [op |-> op, root |-> NoRoot, kind |-> "none", m |-> EmptyMap,
             index |-> -1, result |-> "ok", pre |-> Snapshot,
             root1 |-> NoRoot, pre1 |-> NoSnapshot, underflow |-> FALSE]

\* no free function has been called
NoPureCall == [fn |-> "none"]

\* IdentityTree::new, in a build with or without overflow checks
Init ==
    /\ tree = [i \in LeafIdx |-> ZERO]
    /\ num_leaves = 0
    /\ tree_updates = [b \in {} |-> 0]
    /\ leaves = [h \in {} |-> 0]
    /\ overflow_checks \in BOOLEAN
    /\ last = [Call("new") EXCEPT !.pre = NoSnapshot]
    /\ chain = [i \in LeafIdx |-> ZERO]
    /\ chain_len = 0
    /\ appended = FALSE
    /\ steps = 0
    /\ distinct = TRUE
    /\ increasing = TRUE
    /\ touched = [b \in {} |-> {}]
    /\ tree_moved = FALSE
    /\ leaf_updates = [b \in {} |-> 0]
    /\ pure_call = NoPureCall

\* a call can be made: the process has not panicked and the run is not over
CanCall == last.result # "panic" /\ steps < MaxOps

----------------------------------------------------------------------------
(* append_updates *)

Range(f) == {f[x] : x \in DOMAIN f}

\* the hashes the object or the chain holds
KnownHashes ==
    (Range(tree) \cup Range(chain) \cup DOMAIN leaves
        \cup UNION {Range(tree_updates[b].updates) : b \in DOMAIN tree_updates})
    \cap LeafHashes

\* HashMap::insert(key, value)
map_insert(map, key, value) ==
    [k \in DOMAIN map \cup {key} |-> IF k = key THEN value ELSE map[k]]

\* HashMap::remove(key)
map_remove(map, key) == [k \in DOMAIN map \ {key} |-> map[k]]

\* HashMap::entry(key).or_insert(value)
map_or_insert(map, key, value) ==
    IF key \in DOMAIN map THEN map ELSE map_insert(map, key, value)

\* the sequences that enumerate the set S once each: the orders in which a
\* HashMap with key set S can be iterated
Orders(S) ==
    {o \in [1..Cardinality(S) -> S] : \A i, j \in 1..Cardinality(S) :
                                          o[i] = o[j] => i = j}

\* lines 187-198: the leaf index after the leaf updates, iterated in `order`
RECURSIVE update_leaves(_, _, _, _)
update_leaves(lv, kind, m, order) ==
    IF order = <<>> THEN lv
    ELSE LET idx == Head(order)
             val == m[idx]
         IN  update_leaves(IF kind = "Insert" THEN map_insert(lv, val, idx)
                           ELSE map_remove(lv, val),
                           kind, m, Tail(order))

\* VecDeque: the front of the deque is the head of the sequence
push_front(queue, x) == <<x>> \o queue

pop_back_value(queue) == queue[Len(queue)]

pop_back_rest(queue) == SubSeq(queue, 1, Len(queue) - 1)

\* lines 203-212: the leaves as storage updates, and the queue of parents
RECURSIVE seed_updates(_, _, _)
seed_updates(acc, m, order) ==
    IF order = <<>> THEN acc
    ELSE LET index == Head(order)
             storage_idx == leaf_to_storage_idx(index, TreeDepth)
             parent_idx == (storage_idx - 1) \div 2
         IN  seed_updates([updates |-> map_or_insert(acc.updates, storage_idx,
                                                     m[index]),
                           node_queue |-> push_front(acc.node_queue, parent_idx)],
                          m, Tail(order))

\* (node_idx - 1) / 2 on u32: with overflow checks, 0 - 1 panics (-1 here);
\* without them it wraps to u32::MAX
parent_of(node_idx) ==
    IF node_idx >= 1 THEN (node_idx - 1) \div 2
    ELSE IF overflow_checks THEN -1
    ELSE U32MaxHalf

\* a variant of the child lookup that never consults the updates
resolve_child_skips_updates(idx, updates, prev_update) ==
    IF idx \in DOMAIN prev_update THEN prev_update[idx]
    ELSE LET c == storage_idx_to_coords(idx)
         IN  get_node(c[1], c[2])

\* a variant of the child lookup that never consults the previous patch
resolve_child_skips_prev(idx, updates, prev_update) ==
    IF idx \in DOMAIN updates THEN updates[idx]
    ELSE LET c == storage_idx_to_coords(idx)
         IN  get_node(c[1], c[2])

\* lines 233-254: a child's hash, with precedence given to the updates, then
\* the previous patch, then the canonical tree
resolve_child(idx, updates, prev_update) ==
    IF idx \in DOMAIN updates THEN updates[idx]
    ELSE IF idx \in DOMAIN prev_update THEN prev_update[idx]
    ELSE LET c == storage_idx_to_coords(idx)
         IN  get_node(c[1], c[2])

\* line 224: the u32 subtraction node_idx - 1 leaves the range of u32
sub_underflows(node_idx) == node_idx < 1

\* lines 222-264: the node-queue loop; panic is TRUE when the loop panics,
\* underflow is TRUE when line 224 was evaluated for a node_idx below 1
RECURSIVE drain_queue(_, _, _)
drain_queue(node_queue, updates, prev_update) ==
    IF node_queue = <<>>
    THEN [panic |-> FALSE, underflow |-> FALSE, updates |-> updates]
    ELSE LET node_idx == pop_back_value(node_queue)
             rest == pop_back_rest(node_queue)
             parent_idx == parent_of(node_idx)
         IN  IF parent_idx = -1
             THEN [panic |-> TRUE, underflow |-> TRUE, updates |-> updates]
             ELSE LET drained ==
                      IF parent_idx \in DOMAIN updates
                      THEN drain_queue(rest, updates, prev_update)
                      ELSE LET left_sibling_idx == node_idx * 2 + 1
                               right_sibling_idx == node_idx * 2 + 2
                               left == resolve_child(left_sibling_idx,
                                                     updates, prev_update)
                               right == resolve_child(right_sibling_idx,
                                                      updates, prev_update)
                               hash == hash_node(left, right)
                           IN  drain_queue(IF node_idx # 0
                                           THEN push_front(rest, parent_idx)
                                           ELSE rest,
                                           map_insert(updates, node_idx, hash),
                                           prev_update)
                  IN  [drained EXCEPT
                          !.underflow = @ \/ sub_underflows(node_idx)]

\* a variant of the flattening that copies nothing forward
flatten_prev_dropped(updates, prev_update) == updates

\* lines 266-271: the entries of the previous patch not recomputed
flatten_prev(updates, prev_update) ==
    [k \in DOMAIN updates \cup DOMAIN prev_update |->
        IF k \in DOMAIN updates THEN updates[k] ELSE prev_update[k]]

\* lines 200-271: the patch append_updates computes
compute_patch(m, order) ==
    LET prev_update == prev_update_of(tree_updates)
        seeded == seed_updates([updates |-> EmptyMap, node_queue |-> <<>>],
                               m, order)
        drained == drain_queue(seeded.node_queue, seeded.updates, prev_update)
    IN  [panic |-> drained.panic,
         underflow |-> drained.underflow,
         updates |-> flatten_prev(drained.updates, prev_update)]

\* BTreeMap::insert(root, updates): an entry whose key compares Equal keeps
\* its key and takes the new value
overlay_insert(tu, root, updates) ==
    LET b == overlay_get_key(root)
    IN  [k \in DOMAIN tu \cup {b} |->
            IF k = b
            THEN [root |-> IF b \in DOMAIN tu THEN tu[b].root ELSE root,
                  updates |-> updates]
            ELSE tu[k]]

\* DynamicMerkleTree::push(value): the leaf layer after the push
push(layer, n, value) == set_leaf(layer, n, value)

\* insert(index, value)
Insert(index, value) ==
    /\ leaves' = map_insert(leaves, value, index)
    /\ tree' = push(tree, num_leaves, value)
    /\ num_leaves' = num_leaves + 1
    /\ last' = [Call("insert") EXCEPT !.index = index, !.pre = NoSnapshot]
    /\ chain' = [chain EXCEPT ![index] = value]
    /\ chain_len' = IF index + 1 > chain_len THEN index + 1 ELSE chain_len
    /\ steps' = steps + 1
    /\ distinct' = (distinct /\ value \notin KnownHashes)
    /\ tree_moved' = (DOMAIN tree_updates # {})
    /\ UNCHANGED <<tree_updates, overflow_checks, appended, increasing,
                   touched>>
    /\ UNCHANGED pure_vars

\* a variant of remove that leaves the hash in the leaf index
RemoveKeepsLeaf(index) ==
    /\ leaves' = leaves
    /\ tree' = set_leaf(tree, index, ZERO)
    /\ last' = [Call("remove") EXCEPT !.index = index, !.pre = NoSnapshot]
    /\ chain' = [chain EXCEPT ![index] = ZERO]
    /\ steps' = steps + 1
    /\ tree_moved' = (tree_moved \/ (DOMAIN tree_updates # {} /\ tree' # tree))
    /\ UNCHANGED <<num_leaves, tree_updates, overflow_checks, chain_len,
                   appended, distinct, increasing, touched>>
    /\ UNCHANGED pure_vars

\* remove(index)
Remove(index) ==
    /\ LET leaf == get_leaf(index)
       IN  leaves' = map_remove(leaves, leaf)
    /\ tree' = set_leaf(tree, index, ZERO)
    /\ last' = [Call("remove") EXCEPT !.index = index, !.pre = NoSnapshot]
    /\ chain' = [chain EXCEPT ![index] = ZERO]
    /\ steps' = steps + 1
    /\ tree_moved' = (tree_moved \/ (DOMAIN tree_updates # {} /\ tree' # tree))
    /\ UNCHANGED <<num_leaves, tree_updates, overflow_checks, chain_len,
                   appended, distinct, increasing, touched>>
    /\ UNCHANGED pure_vars

\* the hashes of an Insert map are pairwise distinct and none is held yet
fresh_hashes(m) ==
    /\ \A i, j \in DOMAIN m : m[i] = m[j] => i = j
    /\ Range(m) \cap KnownHashes = {}

\* the head of the chain after the leaf updates
chain_after(kind, m) ==
    [i \in LeafIdx |->
        IF i \in DOMAIN m THEN (IF kind = "Insert" THEN m[i] ELSE ZERO)
        ELSE chain[i]]

\* lines 185-273: what append_updates writes
AppendEffects(root, kind, m, order) ==
    /\ leaves' = update_leaves(leaves, kind, m, order)
    /\ LET patch == compute_patch(m, order)
       IN  IF patch.panic
           THEN /\ tree_updates' = tree_updates
                /\ touched' = touched
                /\ last' = [Call("append") EXCEPT !.root = root,
                                                  !.kind = kind, !.m = m,
                                                  !.underflow = patch.underflow,
                                                  !.result = "panic"]
           ELSE /\ tree_updates' = overlay_insert(tree_updates, root,
                                                  patch.updates)
                /\ touched' = map_insert(touched, overlay_get_key(root),
                                         DOMAIN m)
                /\ last' = [Call("append") EXCEPT !.root = root,
                                                  !.kind = kind, !.m = m,
                                                  !.underflow = patch.underflow]
    /\ chain' = chain_after(kind, m)
    /\ chain_len' = IF kind = "Insert" THEN chain_len + Cardinality(DOMAIN m)
                    ELSE chain_len
    /\ appended' = TRUE
    /\ steps' = steps + 1
    /\ distinct' = (distinct /\ (kind = "Insert" => fresh_hashes(m)))
    /\ increasing' = (/\ increasing
                      /\ \A k \in DOMAIN tree_updates : root.block_number > k)
    /\ UNCHANGED tree_moved
    /\ UNCHANGED pure_vars

\* a variant of append_updates that also writes the leaves into the tree
AppendUpdatesIntoTree(root, kind, m, order) ==
    /\ AppendEffects(root, kind, m, order)
    /\ tree' = [i \in LeafIdx |->
                   IF i \in DOMAIN m
                   THEN (IF kind = "Insert" THEN m[i] ELSE ZERO)
                   ELSE tree[i]]
    /\ UNCHANGED <<num_leaves, overflow_checks>>

\* append_updates(root, leaf_updates), the map iterated in `order`
AppendUpdates(root, kind, m, order) ==
    /\ AppendEffects(root, kind, m, order)
    /\ UNCHANGED <<tree, num_leaves, overflow_checks>>

\* the same call again, with the arguments of the call just made
AppendAgain(order) ==
    /\ leaves' = update_leaves(leaves, last.kind, last.m, order)
    /\ LET patch == compute_patch(last.m, order)
       IN  IF patch.panic
           THEN /\ tree_updates' = tree_updates
                /\ touched' = touched
                /\ last' = [last EXCEPT !.op = "append again",
                                        !.pre = Snapshot,
                                        !.underflow = patch.underflow,
                                        !.result = "panic"]
           ELSE /\ tree_updates' = overlay_insert(tree_updates, last.root,
                                                  patch.updates)
                /\ touched' = map_insert(touched, overlay_get_key(last.root),
                                         DOMAIN last.m)
                /\ last' = [last EXCEPT !.op = "append again",
                                        !.pre = Snapshot,
                                        !.underflow = patch.underflow]
    /\ steps' = steps + 1
    /\ distinct' = (distinct /\ (last.kind = "Insert" => DOMAIN last.m = {}))
    /\ increasing' = (/\ increasing
                      /\ \A k \in DOMAIN tree_updates :
                            last.root.block_number > k)
    /\ UNCHANGED <<tree, num_leaves, overflow_checks, chain, chain_len,
                   appended, tree_moved>>
    /\ UNCHANGED pure_vars

----------------------------------------------------------------------------
(* apply_updates_to_root *)

\* line 283: the entries the loop takes for leaves
is_leaf_update(node_idx) == node_idx >= 2 ^ TreeDepth

\* BTreeMap::remove(root)
overlay_remove(tu, root) ==
    [k \in DOMAIN tu \ {overlay_get_key(root)} |-> tu[k]]

\* a variant of split_off that keeps the entries below root
overlay_split_off_lower(tu, root) ==
    [k \in {b \in DOMAIN tu : b < overlay_get_key(root)} |-> tu[k]]

\* BTreeMap::split_off(root): the entries whose key is not less than root
overlay_split_off(tu, root) ==
    [k \in {b \in DOMAIN tu : b >= overlay_get_key(root)} |-> tu[k]]

\* lines 281-296: the canonical tree after the entries of `update` met in
\* `order` have been applied
RECURSIVE apply_leaves(_, _, _)
apply_leaves(t, update, order) ==
    IF order = <<>> THEN t
    ELSE LET node_idx == Head(order)
             val == update[node_idx]
             leaf_idx == storage_to_leaf_idx(node_idx, TreeDepth)
         IN  apply_leaves(
                 IF val = ZERO
                 THEN [t EXCEPT !.layer = set_leaf(t.layer, leaf_idx, ZERO)]
                 ELSE [layer |-> push(t.layer, t.n, val), n |-> t.n + 1],
                 update, Tail(order))

\* the patch apply_updates_to_root takes out of the overlay
removed_update(root) ==
    IF overlay_has(root) THEN tree_updates[overlay_get_key(root)].updates
    ELSE EmptyMap

applied_entries(root) ==
    {k \in DOMAIN removed_update(root) : is_leaf_update(k)}

\* the pushes of the patch fit into the tree
PushesFit(root) ==
    Cardinality({k \in applied_entries(root) : removed_update(root)[k] # ZERO})
        <= NumLeafSlots - num_leaves

\* apply_updates_to_root(root), the patch iterated in `order`
ApplyUpdatesToRoot(root, order) ==
    /\ LET t == apply_leaves([layer |-> tree, n |-> num_leaves],
                             removed_update(root), order)
       IN  /\ tree' = t.layer
           /\ num_leaves' = t.n
    /\ tree_updates' = overlay_split_off(overlay_remove(tree_updates, root),
                                         root)
    /\ touched' = [b \in DOMAIN tree_updates' |-> touched[b]]
    /\ tree_moved' = (/\ DOMAIN tree_updates' # {}
                      /\ (tree_moved \/ tree' # tree))
    /\ last' = [Call("apply") EXCEPT
                   !.root = root,
                   !.root1 = IF last.op = "apply" THEN last.root ELSE NoRoot,
                   !.pre1 = IF last.op = "apply" THEN last.pre ELSE NoSnapshot]
    /\ steps' = steps + 1
    /\ UNCHANGED <<leaves, overflow_checks, chain, chain_len, appended,
                   distinct, increasing>>
    /\ UNCHANGED pure_vars

----------------------------------------------------------------------------
(* Queries *)

LeafNotFound == "Leaf not found"

RootNotFound == "Could not find root in tree updates"

\* a variant that takes every sibling from the canonical tree
overlay_branches_from_tree(updates, node_idx) == proof_from(tree, node_idx)

\* lines 119-143: the branches from node_idx up to the root, siblings taken
\* from the patch and otherwise from the canonical tree
RECURSIVE overlay_branches(_, _)
overlay_branches(updates, node_idx) ==
    IF ~(node_idx > 0) THEN <<>>
    ELSE LET sibling_idx == IF node_idx % 2 = 0 THEN node_idx - 1
                            ELSE node_idx + 1
             sibling == IF sibling_idx \in DOMAIN updates
                        THEN updates[sibling_idx]
                        ELSE LET c == storage_idx_to_coords(sibling_idx)
                             IN  get_node(c[1], c[2])
             branch == IF node_idx % 2 = 0
                       THEN [side |-> "Right", hash |-> sibling]
                       ELSE [side |-> "Left", hash |-> sibling]
         IN  <<branch>> \o overlay_branches(updates, (node_idx - 1) \div 2)

\* construct_proof_from_root(leaf_idx, root)
construct_proof_from_root(leaf_idx, root) ==
    IF ~overlay_has(root)
    THEN [err |-> RootNotFound, proof |-> <<>>]
    ELSE [err |-> "",
          proof |-> overlay_branches(
                        tree_updates[overlay_get_key(root)].updates,
                        leaf_to_storage_idx(leaf_idx, TreeDepth))]

\* a variant of inclusion_proof that takes leaf index 0 for an unknown leaf
inclusion_proof_default_idx(leaf, root) ==
    LET leaf_idx == IF leaf \in DOMAIN leaves THEN leaves[leaf] ELSE 0
    IN  IF root # NoRoot /\ root.hash # tree_root
        THEN LET res == construct_proof_from_root(leaf_idx, root)
             IN  [err |-> res.err, root |-> root.hash, proof |-> res.proof]
        ELSE [err |-> "", root |-> tree_root, proof |-> tree_proof(leaf_idx)]

\* inclusion_proof(leaf, root); root is NoRoot for None
inclusion_proof(leaf, root) ==
    IF leaf \notin DOMAIN leaves
    THEN [err |-> LeafNotFound, root |-> <<>>, proof |-> <<>>]
    ELSE LET leaf_idx == leaves[leaf]
         IN  IF root # NoRoot
             THEN IF root.hash = tree_root
                  THEN [err |-> "", root |-> tree_root,
                        proof |-> tree_proof(leaf_idx)]
                  ELSE LET res == construct_proof_from_root(leaf_idx, root)
                       IN  IF res.err # ""
                           THEN [err |-> res.err, root |-> <<>>,
                                 proof |-> <<>>]
                           ELSE [err |-> "", root |-> root.hash,
                                 proof |-> res.proof]
             ELSE [err |-> "", root |-> tree_root,
                   proof |-> tree_proof(leaf_idx)]

\* get_root_by_hash(hash): NoRoot for None
get_root_by_hash(hash) ==
    LET target_root == Root(hash, 0)
    IN  IF overlay_has(target_root)
        THEN tree_updates[overlay_get_key(target_root)].root
        ELSE NoRoot

----------------------------------------------------------------------------
(* The callers' inputs *)

\* an unknown root hash: the root of a tree no caller ever builds
UnknownHash == node_of([i \in LeafIdx |-> <<MaxHash + 1>>], 0, 0)

\* hashes are interchangeable, so a caller's new hash is the first one that
\* is not known (and not earlier in the same map): <<n + 1>> when <<1>> ..
\* <<n>> are so
IsNextHash(h, known) ==
    h \in known \/ \A k \in 1..(h[1] - 1) : <<k>> \in known

\* Insert maps: the next k positions of the chain, each with a non-zero hash
InsertMaps ==
    {m \in UNION {[chain_len..(chain_len + k - 1) -> LeafHashes] :
                     k \in 0..MaxBatch} :
        /\ \A i \in DOMAIN m : i \in LeafIdx
        /\ \A i \in DOMAIN m :
              IsNextHash(m[i], KnownHashes
                                 \cup {m[j] : j \in {x \in DOMAIN m : x < i}})}

\* Delete maps: up to MaxBatch occupied positions of the chain, each with the
\* hash being removed
DeleteMaps ==
    {[i \in S |-> chain[i]] :
        S \in {T \in SUBSET {i \in LeafIdx : chain[i] # ZERO} :
                  Cardinality(T) <= MaxBatch}}

\* block numbers after every root of the overlay
NextBlocks ==
    {b \in Blocks : \A k \in DOMAIN tree_updates : b > k}

\* the roots a caller promotes: the stored keys, and unknown roots
PromotedRoots ==
    {tree_updates[b].root : b \in DOMAIN tree_updates}
        \cup {Root(UnknownHash, b) : b \in Blocks \ DOMAIN tree_updates}

\* the root hashes a caller asks about
QueryHashes ==
    {tree_root, UnknownHash}
        \cup {tree_updates[b].root.hash : b \in DOMAIN tree_updates}

\* the root arguments of inclusion_proof: None and Some(root)
QueryRoots ==
    {NoRoot} \cup {Root(h, b) : h \in QueryHashes, b \in Blocks}

\* the leaf arguments of inclusion_proof
QueryLeaves == LeafHashes \cup {ZERO}

DoInsert ==
    /\ CanCall
    /\ DOMAIN tree_updates = {}
    /\ num_leaves < NumLeafSlots
    /\ \E value \in {h \in LeafHashes : IsNextHash(h, KnownHashes)} :
          Insert(num_leaves, value)

DoRemove ==
    /\ CanCall
    /\ DOMAIN tree_updates = {}
    /\ \E index \in LeafIdx : Remove(index)

DoAppendInsert ==
    /\ CanCall
    /\ \E m \in InsertMaps, b \in NextBlocks :
          \E order \in Orders(DOMAIN m) :
             AppendUpdates(Root(node_of(chain_after("Insert", m), 0, 0), b),
                           "Insert", m, order)

DoAppendDelete ==
    /\ CanCall
    /\ \E m \in DeleteMaps, b \in NextBlocks :
          \E order \in Orders(DOMAIN m) :
             AppendUpdates(Root(node_of(chain_after("Delete", m), 0, 0), b),
                           "Delete", m, order)

DoAppendAgain ==
    /\ CanCall
    /\ last.op = "append"
    /\ \E order \in Orders(DOMAIN last.m) : AppendAgain(order)

DoApply ==
    /\ CanCall
    /\ \E root \in PromotedRoots :
          /\ PushesFit(root)
          /\ \E order \in Orders(applied_entries(root)) :
                ApplyUpdatesToRoot(root, order)

Next ==
    \/ DoInsert
    \/ DoRemove
    \/ DoAppendInsert
    \/ DoAppendDelete
    \/ DoAppendAgain
    \/ DoApply

Spec == Init /\ [][Next]_vars

----------------------------------------------------------------------------
(* Claims *)

\* the overlay entry of `root` in the overlay tu, by content: a key with the
\* root's hash
KeysWithHash(tu, hash) == {b \in DOMAIN tu : tu[b].root.hash = hash}

LastAppendOk == last.op = "append" /\ last.result = "ok"

\* C1: for a root r that is a key of the overlay and whose patch holds
\* r.hash at storage index 0, after apply_updates_to_root(r) the canonical
\* root equals r.hash.
C1_PromotedRootIsCanonical ==
    (/\ last.op = "apply"
     /\ last.root.block_number \in DOMAIN last.pre.tree_updates
     /\ LET e == last.pre.tree_updates[last.root.block_number]
        IN  /\ e.root = last.root
            /\ 0 \in DOMAIN e.updates
            /\ e.updates[0] = last.root.hash)
    => tree_root = last.root.hash

\* C2: after apply_updates_to_root(r) the overlay holds no entry with a
\* block number <= r.block_number, and every entry with a greater block
\* number is still there with the patch it had.
C2_PromotionPrunesOverlay ==
    last.op = "apply" =>
        /\ \A b \in DOMAIN tree_updates : b > last.root.block_number
        /\ \A b \in DOMAIN last.pre.tree_updates :
              b > last.root.block_number =>
                  /\ b \in DOMAIN tree_updates
                  /\ tree_updates[b] = last.pre.tree_updates[b]

\* C2 happens: a promotion of a stored root removed it and kept a later entry
C2_Witness ==
    /\ last.op = "apply"
    /\ last.root.block_number \in DOMAIN last.pre.tree_updates
    /\ last.pre.tree_updates[last.root.block_number].root = last.root
    /\ \E b \in DOMAIN tree_updates : b > last.root.block_number

\* C3: after append_updates(r, Insert({i -> h})), h fresh and non-zero, i an
\* empty position and r.hash the root of the tree the insertion results in,
\* inclusion_proof(h, Some(r)) succeeds, reports r.hash and its proof folds
\* from h to r.hash.
C3_InsertedLeafProvable ==
    (/\ LastAppendOk
     /\ last.kind = "Insert"
     /\ Cardinality(DOMAIN last.m) = 1
     /\ \A i \in DOMAIN last.m :
           /\ last.m[i] \notin DOMAIN last.pre.leaves
           /\ last.m[i] \notin Range(last.pre.tree)
           /\ last.pre.tree[i] = ZERO
     /\ last.root.hash = node_of(chain, 0, 0))
    => \A i \in DOMAIN last.m :
          LET res == inclusion_proof(last.m[i], last.root)
          IN  /\ res.err = ""
              /\ res.root = last.root.hash
              /\ proof_root(res.proof, last.m[i]) = last.root.hash

\* C4: append_updates never changes the canonical tree: its leaves (and so
\* its root and every interior node) are after the call what they were
\* before it.
C4_AppendKeepsTree ==
    last.op \in {"append", "append again"} =>
        /\ tree = last.pre.tree
        /\ num_leaves = last.pre.num_leaves
        /\ \A s \in 0..(2 * NumLeafSlots - 2) :
              LET c == storage_idx_to_coords(s)
              IN  get_node(c[1], c[2]) = node_of(last.pre.tree, c[1], c[2])

\* C4 happens: an append_updates that stored a patch over a non-empty tree
C4_Witness ==
    /\ LastAppendOk
    /\ DOMAIN last.m # {}
    /\ tree_updates # last.pre.tree_updates
    /\ leaves # last.pre.leaves
    /\ num_leaves > 0

\* C5: get_root_by_hash(h) returns the stored root descriptor whose hash is
\* h, whatever its block number, when there is one, and absence when there
\* is none.
C5_RootLookupByHash ==
    \A h \in QueryHashes :
        /\ KeysWithHash(tree_updates, h) # {} =>
              get_root_by_hash(h) \in
                  {tree_updates[b].root : b \in KeysWithHash(tree_updates, h)}
        /\ KeysWithHash(tree_updates, h) = {} => get_root_by_hash(h) = NoRoot

\* C6: after append_updates(r, Delete(M)), for every (i, h) in M the patch
\* stored for r holds ZERO at leaf_to_storage(i, D), h is no key of the leaf
\* index and inclusion_proof(h, Some(r)) fails with Unknown leaf.
C6_DeleteStoresZero ==
    (LastAppendOk /\ last.kind = "Delete") =>
        \A i \in DOMAIN last.m :
            /\ tree_updates[last.root.block_number]
                   .updates[leaf_to_storage_idx(i, TreeDepth)] = ZERO
            /\ last.m[i] \notin DOMAIN leaves
            /\ inclusion_proof(last.m[i], last.root).err = LeafNotFound

\* C7: after inserts and removes alone (no append_updates), for every key of
\* the leaf index inclusion_proof(hash, None) succeeds, reports tree.root()
\* and its proof folds from the hash to tree.root().
C7_CanonicalProofsVerify ==
    ~appended =>
        \A h \in DOMAIN leaves :
            LET res == inclusion_proof(h, NoRoot)
            IN  /\ res.err = ""
                /\ res.root = tree_root
                /\ proof_root(res.proof, h) = tree_root

\* C7 happens: after inserts and a remove, a leaf is proved beside a hole
C7_Witness ==
    /\ ~appended
    /\ last.op = "remove"
    /\ DOMAIN leaves # {}
    /\ \E i \in LeafIdx : i < num_leaves /\ tree[i] = ZERO

\* C8: inclusion_proof(leaf, root) fails with Unknown leaf whenever leaf is
\* no key of the leaf index, for every root argument.
C8_UnknownLeafFails ==
    \A leaf \in QueryLeaves \ DOMAIN leaves :
        \A root \in QueryRoots :
            inclusion_proof(leaf, root).err = LeafNotFound

\* C8 happens: a hash the canonical tree holds is no key of the leaf index
\* while the overlay holds a root
C8_Witness ==
    /\ DOMAIN tree_updates # {}
    /\ DOMAIN leaves # {}
    /\ \E h \in Range(tree) \cap LeafHashes : h \notin DOMAIN leaves

\* C9: inclusion_proof(leaf, Some(r)) fails with Unknown overlay root when
\* leaf is a key of the leaf index, r.hash is not tree.root() and no overlay
\* key has hash r.hash, for every r.block_number.
C9_UnknownRootFails ==
    \A leaf \in DOMAIN leaves :
        \A root \in QueryRoots \ {NoRoot} :
            (/\ root.hash # tree_root
             /\ KeysWithHash(tree_updates, root.hash) = {})
            => inclusion_proof(leaf, root).err = RootNotFound

\* C10: append_updates called twice in a row with the same arguments leaves
\* the overlay and the leaf index as the first call left them.
C10_AppendIdempotent ==
    (last.op = "append again" /\ last.result = "ok") =>
        /\ tree_updates = last.pre.tree_updates
        /\ leaves = last.pre.leaves

\* the hashes of a map are pairwise distinct
DistinctHashes(m) == \A i, j \in DOMAIN m : m[i] = m[j] => i = j

\* C10 as amended: append_updates called twice in a row with the same
\* arguments, the hashes of the map pairwise distinct, leaves the overlay and
\* the leaf index as the first call left them.
C10_AppendIdempotentDistinct ==
    (/\ last.op = "append again"
     /\ last.result = "ok"
     /\ DistinctHashes(last.m)) =>
        /\ tree_updates = last.pre.tree_updates
        /\ leaves = last.pre.leaves

\* C10 happens: a repeated append_updates of two leaves over an earlier root
C10_Witness ==
    /\ last.op = "append again"
    /\ last.result = "ok"
    /\ DistinctHashes(last.m)
    /\ Cardinality(DOMAIN last.m) = 2
    /\ Cardinality(DOMAIN tree_updates) = 2
----------------------------------------------------------------------------
(* flatten_leaf_updates, a free function over a BTreeMap<Root, LeafUpdates>. *)
(* The map is keyed by block number (Ord for Root); the function never      *)
(* reads the keys, so leaf_updates maps a block number to the LeafUpdates.  *)

LeafUpdates(kind, m) == [kind |-> kind, m |-> m]

\* lines 18-25: impl Into<Leaves> for LeafUpdates
into_leaves(lu) ==
    CASE lu.kind = "Insert" -> lu.m
      [] lu.kind = "Delete" -> lu.m

Min(S) == CHOOSE x \in S : \A y \in S : x <= y

\* the keys of a BTreeMap in iteration order (ascending)
RECURSIVE iter_fwd(_)
iter_fwd(S) ==
    IF S = {} THEN <<>>
    ELSE LET x == Min(S) IN <<x>> \o iter_fwd(S \ {x})

\* line 326: into_iter().rev(), the keys in descending order
RECURSIVE iter_rev(_)
iter_rev(S) ==
    IF S = {} THEN <<>>
    ELSE LET x == Max(S) IN <<x>> \o iter_rev(S \ {x})

\* lines 329-331: the pairs of one map, met in `order`, or_inserted into acc
RECURSIVE flatten_one(_, _, _)
flatten_one(acc, updates, order) ==
    IF order = <<>> THEN acc
    ELSE flatten_one(map_or_insert(acc, Head(order), updates[Head(order)]),
                     updates, Tail(order))

\* lines 326-332: the maps visited in the sequence `blocks`
RECURSIVE flatten_all(_, _, _, _)
flatten_all(acc, lus, blocks, orders) ==
    IF blocks = <<>> THEN acc
    ELSE LET b == Head(blocks)
             updates == into_leaves(lus[b])
         IN  flatten_all(flatten_one(acc, updates, orders[b]), lus,
                         Tail(blocks), orders)

\* lines 323-332: flattened_updates
flattened_updates(lus, orders) ==
    flatten_all(EmptyMap, lus, iter_rev(DOMAIN lus), orders)

\* a pair goes behind every pair whose key is not greater (the sort is stable)
RECURSIVE insert_sorted(_, _)
insert_sorted(sorted, pair) ==
    IF sorted = <<>> THEN <<pair>>
    ELSE IF Head(sorted)[1] <= pair[1]
         THEN <<Head(sorted)>> \o insert_sorted(Tail(sorted), pair)
         ELSE <<pair>> \o sorted

\* line 335: sort_by_key(|(idx, _)| *idx)
RECURSIVE sort_by_key(_)
sort_by_key(v) ==
    IF v = <<>> THEN <<>>
    ELSE insert_sorted(sort_by_key(SubSeq(v, 1, Len(v) - 1)), v[Len(v)])

\* flatten_leaf_updates(leaf_updates): each map iterated in orders[b], the
\* flattened map collected in collect_order
flatten_leaf_updates(lus, orders, collect_order) ==
    LET flat == flattened_updates(lus, orders)
        updates == [k \in 1..Len(collect_order) |->
                       <<collect_order[k], flat[collect_order[k]]>>]
    IN  sort_by_key(updates)

\* the leaf indices a gathered map may carry
FlattenIdx == 0..(MaxBatch - 1)

\* the hashes the gathered maps carry
GatheredHashes == UNION {Range(leaf_updates[b].m) : b \in DOMAIN leaf_updates}

\* the (index, hash) pairs gathered so far
GatheredPairs ==
    Cardinality({<<b, i>> \in (DOMAIN leaf_updates) \X FlattenIdx :
                    i \in DOMAIN leaf_updates[b].m})

\* the maps a caller may gather next: non-empty, MaxOps pairs in all
GatherMaps ==
    {m \in UNION {[S -> LeafHashes] : S \in SUBSET FlattenIdx \ {{}}} :
        /\ GatheredPairs + Cardinality(DOMAIN m) <= MaxOps
        /\ \A i \in DOMAIN m :
              IsNextHash(m[i], GatheredHashes
                                 \cup {m[j] : j \in {x \in DOMAIN m : x < i}})}

\* the ways the maps of lus can each be iterated
MapOrders(lus) ==
    {o \in [DOMAIN lus -> UNION {Orders(DOMAIN lus[b].m) : b \in DOMAIN lus}] :
        \A b \in DOMAIN lus : o[b] \in Orders(DOMAIN lus[b].m)}

\* the block numbers of the root a caller gathers next: any block for the
\* first root, the following block after that
GatherBlocks ==
    IF DOMAIN leaf_updates = {} THEN Blocks
    ELSE {Max(DOMAIN leaf_updates) + 1} \cap Blocks

\* a caller adds the leaf updates of a later root to its map
GatherLeafUpdates ==
    /\ pure_call = NoPureCall
    /\ \E b \in GatherBlocks,
          kind \in {"Insert", "Delete"}, m \in GatherMaps :
          leaf_updates' = map_insert(leaf_updates, b, LeafUpdates(kind, m))
    /\ UNCHANGED pure_call
    /\ UNCHANGED tree_vars
    /\ UNCHANGED steps

\* flatten_leaf_updates(leaf_updates): the map is moved into the call
FlattenLeafUpdates ==
    /\ pure_call = NoPureCall
    /\ \E orders \in MapOrders(leaf_updates) :
          \E collect_order \in
                Orders(DOMAIN flattened_updates(leaf_updates, orders)) :
             pure_call' = [fn |-> "flatten_leaf_updates",
                           input |-> leaf_updates,
                           result |-> flatten_leaf_updates(leaf_updates, orders,
                                                           collect_order)]
    /\ leaf_updates' = [b \in {} |-> 0]
    /\ UNCHANGED tree_vars
    /\ UNCHANGED steps

NextFlatten ==
    \/ GatherLeafUpdates
    \/ FlattenLeafUpdates

\* the free functions take no identity tree; flatten_leaf_updates does no
\* arithmetic, so one build profile stands for both
InitFlatten == Init /\ ~overflow_checks

SpecFlatten == InitFlatten /\ [][NextFlatten]_vars

Flattened == pure_call.fn = "flatten_leaf_updates"

\* the leaf indices that occur in some map of lus
CarriedIdx(lus) == UNION {DOMAIN lus[b].m : b \in DOMAIN lus}

\* a leaf layer with the pairs of a sequence written into it, first to last
RECURSIVE write_pairs(_, _)
write_pairs(layer, pairs) ==
    IF pairs = <<>> THEN layer
    ELSE write_pairs([layer EXCEPT ![Head(pairs)[1]] = Head(pairs)[2]],
                     Tail(pairs))

\* a leaf layer with the maps of lus written into it, oldest block first
RECURSIVE write_maps(_, _, _)
write_maps(layer, lus, blocks) ==
    IF blocks = {} THEN layer
    ELSE LET b == Min(blocks)
         IN  write_maps([i \in DOMAIN layer |->
                            IF i \in DOMAIN lus[b].m THEN lus[b].m[i]
                            ELSE layer[i]],
                        lus, blocks \ {b})

\* C11: flatten_leaf_updates returns exactly one pair per leaf index that
\* occurs in an input map, in strictly ascending index order, the hash of
\* index i being the one the map with the greatest block number among those
\* that contain i carries for i; writing the pairs into an empty leaf layer
\* gives the layer that writing every map's pairs in chronological order
\* gives.
C11_FlattenLatestWins ==
    Flattened =>
        LET lus == pure_call.input
            out == pure_call.result
            empty == [i \in FlattenIdx |-> ZERO]
        IN  /\ Len(out) = Cardinality(CarriedIdx(lus))
            /\ {out[k][1] : k \in 1..Len(out)} = CarriedIdx(lus)
            /\ \A k \in 1..(Len(out) - 1) : out[k][1] < out[k + 1][1]
            /\ \A k \in 1..Len(out) :
                  LET i == out[k][1]
                      b == Max({x \in DOMAIN lus : i \in DOMAIN lus[x].m})
                  IN  out[k][2] = lus[b].m[i]
            /\ write_pairs(empty, out) = write_maps(empty, lus, DOMAIN lus)

\* C11 happens: two maps carry different hashes for one index, and an index
\* greater than it is carried by the older map alone
C11_Witness ==
    /\ Flattened
    /\ \E b1, b2 \in DOMAIN pure_call.input :
          /\ b1 < b2
          /\ \E i \in DOMAIN pure_call.input[b1].m
                     \cap DOMAIN pure_call.input[b2].m :
                /\ pure_call.input[b1].m[i] # pure_call.input[b2].m[i]
                /\ \E j \in DOMAIN pure_call.input[b1].m :
                      j > i /\ j \notin DOMAIN pure_call.input[b2].m
----------------------------------------------------------------------------
(* Invariants of the leaf index and of the overlay *)

\* the patch of the overlay entry with the greatest block number
latest_patch == prev_update_of(tree_updates)

\* the callers kept the ingestion contract: increasing block numbers and
\* hashes that were new when inserted
ContractKept == distinct /\ increasing

\* hash is a key of the leaf index, mapped to leaf index i
IndexedAt(hash, i) == hash \in DOMAIN leaves /\ leaves[hash] = i

\* C12: in every state reached by insert, remove, append_updates (increasing
\* block numbers, distinct non-zero inserted hashes) and
\* apply_updates_to_root, every non-zero leaf of the canonical tree and every
\* non-zero leaf-layer value of the latest patch is a key of the leaf index
\* mapped to that leaf's index, and ZERO is no key.
C12_LeafIndexInvariant ==
    ContractKept =>
        /\ \A i \in LeafIdx : tree[i] # ZERO => IndexedAt(tree[i], i)
        /\ \A i \in LeafIdx :
              LET s == leaf_to_storage_idx(i, TreeDepth)
              IN  (s \in DOMAIN latest_patch /\ latest_patch[s] # ZERO)
                      => IndexedAt(latest_patch[s], i)
        /\ ZERO \notin DOMAIN leaves
\* storage index s and its ancestors up to the root
RECURSIVE path_to_root(_)
path_to_root(s) ==
    IF s = 0 THEN {0} ELSE {s} \cup path_to_root((s - 1) \div 2)

\* the storage indices an update of the leaf indices T recomputes: the
\* touched leaves and the nodes on their paths to the root
Recomputed(T) ==
    UNION {path_to_root(leaf_to_storage_idx(i, TreeDepth)) : i \in T}

\* overlay entries b1 < b2 with no entry between them
Consecutive(b1, b2) ==
    /\ b1 \in DOMAIN tree_updates
    /\ b2 \in DOMAIN tree_updates
    /\ b1 < b2
    /\ \A k \in DOMAIN tree_updates : ~(b1 < k /\ k < b2)

\* C13: with append_updates called in increasing block-number order, for any
\* two consecutive overlay entries every storage index of the older patch is
\* in the newer patch, and holds the same hash there unless the newer
\* entry's own update recomputed it (a touched leaf or a node on the path
\* from a touched leaf to the root).
C13_OverlaySuperset ==
    \A b1, b2 \in Blocks :
        Consecutive(b1, b2) =>
            LET p1 == tree_updates[b1].updates
                p2 == tree_updates[b2].updates
            IN  /\ DOMAIN p1 \subseteq DOMAIN p2
                /\ \A s \in DOMAIN p1 \ Recomputed(touched[b2]) :
                      p2[s] = p1[s]

\* C13 happens: a patch inherits a leaf and an interior node it did not
\* recompute from the entry before it
C13_Witness ==
    \E b1, b2 \in Blocks :
        /\ Consecutive(b1, b2)
        /\ touched[b2] # {}
        /\ \E s, n \in DOMAIN tree_updates[b1].updates
                         \ Recomputed(touched[b2]) :
              s >= leaf_to_storage_idx(0, TreeDepth) /\ n < s
----------------------------------------------------------------------------
(* The index functions, called as free functions for any tree depth *)

\* x is a value of type u32
in_u32(x) == 0 <= x /\ x \div 2 <= U32MaxHalf

\* lines 34-35: the u32 values leaf_to_storage_idx computes on its way
leaf_to_storage_values(leaf_idx, tree_depth) ==
    {2 ^ tree_depth, (2 ^ tree_depth) - 1, ((2 ^ tree_depth) - 1) + leaf_idx}

\* lines 39-40: the u32 values storage_to_leaf_idx computes on its way
storage_to_leaf_values(storage_idx, tree_depth) ==
    {2 ^ tree_depth, (2 ^ tree_depth) - 1,
     storage_idx - ((2 ^ tree_depth) - 1)}

\* a u32 shift, subtraction or addition of the two calls leaves the type
index_fault(leaf_idx, tree_depth) ==
    \/ tree_depth >= 32
    \/ \E x \in leaf_to_storage_values(leaf_idx, tree_depth) : ~in_u32(x)
    \/ \E x \in storage_to_leaf_values(
                    leaf_to_storage_idx(leaf_idx, tree_depth), tree_depth) :
          ~in_u32(x)

Depths == 1..MaxDepth

\* leaf_to_storage_idx(i, D) and storage_to_leaf_idx of its result
LeafToStorageAndBack ==
    /\ pure_call = NoPureCall
    /\ \E tree_depth \in Depths :
          \E leaf_idx \in 0..((2 ^ tree_depth) - 1) :
             LET storage_idx == leaf_to_storage_idx(leaf_idx, tree_depth)
             IN  pure_call' =
                     [fn |-> "leaf_to_storage_idx",
                      tree_depth |-> tree_depth,
                      leaf_idx |-> leaf_idx,
                      storage_idx |-> storage_idx,
                      back |-> storage_to_leaf_idx(storage_idx, tree_depth),
                      fault |-> index_fault(leaf_idx, tree_depth)]
    /\ UNCHANGED leaf_updates
    /\ UNCHANGED tree_vars
    /\ UNCHANGED steps

\* storage_idx_to_coords(s) for a storage index of a tree of depth D
StorageIdxToCoords ==
    /\ pure_call = NoPureCall
    /\ \E tree_depth \in Depths :
          \E index \in 0..((2 ^ (tree_depth + 1)) - 2) :
             pure_call' = [fn |-> "storage_idx_to_coords",
                           tree_depth |-> tree_depth,
                           index |-> index,
                           coords |-> storage_idx_to_coords(index)]
    /\ UNCHANGED leaf_updates
    /\ UNCHANGED tree_vars
    /\ UNCHANGED steps

NextIndex ==
    \/ LeafToStorageAndBack
    \/ StorageIdxToCoords

SpecIndex == Init /\ [][NextIndex]_vars

\* C14: for every depth D in 1..MaxDepth and leaf index i < 2^D,
\* leaf_to_storage_idx(i, D) = (1 << D) - 1 + i, storage_to_leaf_idx takes
\* that back to i, and no u32 operation overflows or underflows.
C14_LeafStorageRoundTrip ==
    pure_call.fn = "leaf_to_storage_idx" =>
        /\ pure_call.storage_idx
               = (2 ^ pure_call.tree_depth) - 1 + pure_call.leaf_idx
        /\ pure_call.back = pure_call.leaf_idx
        /\ ~pure_call.fault

\* C14 happens: the last leaf of the deepest tree went there and back
C14_Witness ==
    /\ pure_call.fn = "leaf_to_storage_idx"
    /\ pure_call.tree_depth = MaxDepth
    /\ pure_call.leaf_idx = (2 ^ MaxDepth) - 1
    /\ pure_call.storage_idx > pure_call.leaf_idx

\* C15: for every depth D in 1..MaxDepth and storage index s in
\* [0, 2^(D+1) - 2], storage_idx_to_coords(s) = (d, o) with
\* d = floor(log2(s + 1)), o = s - (2^d - 1) and 0 <= o < 2^d; a leaf-layer
\* storage index maps to depth D and to its own leaf index.
C15_CoordsOfStorageIdx ==
    pure_call.fn = "storage_idx_to_coords" =>
        LET s == pure_call.index
            d == pure_call.coords[1]
            o == pure_call.coords[2]
            D == pure_call.tree_depth
        IN  /\ d >= 0
            /\ 2 ^ d <= s + 1
            /\ s + 1 < 2 ^ (d + 1)
            /\ o = s - ((2 ^ d) - 1)
            /\ 0 <= o /\ o < 2 ^ d
            /\ s >= (2 ^ D) - 1 =>
                  /\ d = D
                  /\ o \in 0..((2 ^ D) - 1)
                  /\ leaf_to_storage_idx(o, D) = s

\* C15 happens: the coordinates of the last leaf of the deepest tree and of
\* an interior node were computed
C15_Witness ==
    /\ pure_call.fn = "storage_idx_to_coords"
    /\ pure_call.tree_depth = MaxDepth
    /\ pure_call.index = (2 ^ (MaxDepth + 1)) - 2
    /\ pure_call.coords = <<MaxDepth, (2 ^ MaxDepth) - 1>>
\* the value of storage index k under a patch: the patch's entry if there is
\* one, otherwise the canonical tree's node
value_under(patch, k) ==
    IF k \in DOMAIN patch THEN patch[k]
    ELSE LET c == storage_idx_to_coords(k)
         IN  get_node(c[1], c[2])

\* the canonical leaf layer overwritten by the leaf entries of a patch
leaves_under(patch) ==
    [i \in LeafIdx |-> value_under(patch, leaf_to_storage_idx(i, TreeDepth))]

\* append_updates(r, Insert(M)) with non-empty M has just stored a patch,
\* the appends came in increasing block-number order and the canonical tree
\* is the one every entry of the overlay was appended over
InsertAppended ==
    /\ LastAppendOk
    /\ last.kind = "Insert"
    /\ DOMAIN last.m # {}
    /\ increasing
    /\ ~tree_moved

\* C16: after append_updates(r, Insert(M)), M non-empty, appended in
\* increasing block-number order over an unchanged canonical tree, the patch
\* of r contains every touched leaf and every ancestor of it up to index 0,
\* every interior entry n of it is the hash of v(2n+1) and v(2n+2), v(k)
\* being the patch's value at k or else the canonical node k, and so its
\* entry at 0 is the Merkle root of the canonical leaf layer overwritten by
\* the overlay's leaf entries.
C16_PatchIsConsistent ==
    InsertAppended =>
        LET patch == tree_updates[last.root.block_number].updates
        IN  /\ Recomputed(DOMAIN last.m) \subseteq DOMAIN patch
            /\ \A n \in DOMAIN patch :
                  n < leaf_to_storage_idx(0, TreeDepth) =>
                      patch[n] = hash_node(value_under(patch, 2 * n + 1),
                                           value_under(patch, 2 * n + 2))
            /\ patch[0] = node_of(leaves_under(patch), 0, 0)

\* C16 happens: two touched leaves share their parent, and the overlay held
\* an earlier entry
C16_Witness ==
    /\ InsertAppended
    /\ DOMAIN prev_update_of(last.pre.tree_updates) # {}
    /\ \E i, j \in DOMAIN last.m :
          /\ i # j
          /\ (leaf_to_storage_idx(i, TreeDepth) - 1) \div 2
                 = (leaf_to_storage_idx(j, TreeDepth) - 1) \div 2
----------------------------------------------------------------------------
(* Promotion *)

\* apply_updates_to_root(r) has just run for a root r the overlay held
PromotedStored ==
    /\ last.op = "apply"
    /\ last.root.block_number \in DOMAIN last.pre.tree_updates
    /\ last.pre.tree_updates[last.root.block_number].root = last.root

\* the patch the promotion took out of the overlay
promoted_patch == last.pre.tree_updates[last.root.block_number].updates

\* the entries of a patch in the leaf layer: storage index >= (1 << D) - 1
LeafLayerEntries(patch) ==
    {k \in DOMAIN patch : k >= leaf_to_storage_idx(0, TreeDepth)}

\* C17: apply_updates_to_root(r) applies to the canonical tree every entry
\* of r's patch whose storage index is in the leaf layer (>= (1 << D) - 1)
\* and no entry below it: a ZERO entry zeroes its leaf, every non-zero entry
\* is pushed, the entry of leaf index 0 included.
C17_LeafLayerApplied ==
    PromotedStored =>
        /\ \A k \in LeafLayerEntries(promoted_patch) :
              IF promoted_patch[k] = ZERO
              THEN tree[storage_to_leaf_idx(k, TreeDepth)] = ZERO
              ELSE promoted_patch[k] \in Range(tree)
        /\ num_leaves = last.pre.num_leaves
              + Cardinality({k \in LeafLayerEntries(promoted_patch) :
                                promoted_patch[k] # ZERO})
        /\ \A k \in DOMAIN promoted_patch \ LeafLayerEntries(promoted_patch) :
              promoted_patch[k] \notin Range(tree)
----------------------------------------------------------------------------
(* Proofs *)

\* the j-th node above storage index s: s itself for j = 0
RECURSIVE ancestor(_, _)
ancestor(s, j) == IF j = 0 THEN s ELSE ancestor((s - 1) \div 2, j - 1)

\* the other child of the parent of node n (n > 0)
other_child(n) == IF n % 2 = 1 THEN n + 1 ELSE n - 1

\* C18: for a leaf index of a tree of depth D and an overlay root r,
\* construct_proof_from_root returns exactly D branches in leaf-to-root
\* order; the hash of the branch for path node n is the value of the other
\* child of n's parent (n + 1 for odd n, n - 1 for even n), taken from r's
\* patch if it is there and from the canonical tree otherwise.
C18_BranchesAreSiblings ==
    \A b \in DOMAIN tree_updates, leaf_idx \in LeafIdx :
        LET res == construct_proof_from_root(leaf_idx, tree_updates[b].root)
            patch == tree_updates[b].updates
            s == leaf_to_storage_idx(leaf_idx, TreeDepth)
        IN  /\ res.err = ""
            /\ Len(res.proof) = TreeDepth
            /\ \A j \in 1..TreeDepth :
                  LET n == ancestor(s, j - 1)
                  IN  /\ n > 0
                      /\ (other_child(n) - 1) \div 2 = (n - 1) \div 2
                      /\ res.proof[j].hash
                             = value_under(patch, other_child(n))
            /\ ancestor(s, TreeDepth) = 0

\* C18 happens: a proof takes one sibling from the patch and another, not
\* ZERO, from the canonical tree
C18_Witness ==
    \E b \in DOMAIN tree_updates, leaf_idx \in LeafIdx :
        LET res == construct_proof_from_root(leaf_idx, tree_updates[b].root)
            patch == tree_updates[b].updates
            s == leaf_to_storage_idx(leaf_idx, TreeDepth)
        IN  /\ res.err = ""
            /\ \E j \in 1..TreeDepth :
                  other_child(ancestor(s, j - 1)) \in DOMAIN patch
            /\ \E j \in 1..TreeDepth :
                  /\ other_child(ancestor(s, j - 1)) \notin DOMAIN patch
                  /\ res.proof[j].hash # ZERO
                  /\ res.proof[j].hash # hash_node(ZERO, ZERO)
----------------------------------------------------------------------------
(* Promotions in a row: runs of append_updates and apply_updates_to_root,   *)
(* one call longer than the runs of Spec                                   *)

CanCompose == last.result # "panic" /\ steps < MaxOps + 1

\* the roots the overlay holds
StoredRoots == {tree_updates[b].root : b \in DOMAIN tree_updates}

ComposeAppendInsert ==
    /\ CanCompose
    /\ \E m \in InsertMaps, b \in NextBlocks :
          \E order \in Orders(DOMAIN m) :
             AppendUpdates(Root(node_of(chain_after("Insert", m), 0, 0), b),
                           "Insert", m, order)

ComposeAppendDelete ==
    /\ CanCompose
    /\ \E m \in DeleteMaps, b \in NextBlocks :
          \E order \in Orders(DOMAIN m) :
             AppendUpdates(Root(node_of(chain_after("Delete", m), 0, 0), b),
                           "Delete", m, order)

ComposeApply ==
    /\ CanCompose
    /\ \E root \in StoredRoots :
          /\ PushesFit(root)
          /\ \E order \in Orders(applied_entries(root)) :
                ApplyUpdatesToRoot(root, order)

NextCompose ==
    \/ ComposeAppendInsert
    \/ ComposeAppendDelete
    \/ ComposeApply

SpecCompose == Init /\ [][NextCompose]_vars

\* what apply_updates_to_root(root) makes of the object obj, the patch
\* iterated in `order`
apply_alone(obj, root, order) ==
    LET update == obj.tree_updates[overlay_get_key(root)].updates
        t == apply_leaves([layer |-> obj.tree, n |-> obj.num_leaves],
                          update, order)
    IN  [tree |-> t.layer,
         num_leaves |-> t.n,
         tree_updates |-> overlay_split_off(
                              overlay_remove(obj.tree_updates, root), root)]

\* apply_updates_to_root(r1) and then apply_updates_to_root(r2) have just
\* run, r1 < r2 both roots of the overlay, appended in increasing order
PromotedTwice ==
    /\ last.op = "apply"
    /\ last.root1 # NoRoot
    /\ increasing
    /\ last.root1.block_number < last.root.block_number
    /\ \A r \in {last.root1, last.root} :
          /\ r.block_number \in DOMAIN last.pre1.tree_updates
          /\ last.pre1.tree_updates[r.block_number].root = r

\* C19: promotions compose: apply_updates_to_root(r1) followed by
\* apply_updates_to_root(r2), r1 < r2, leaves the canonical leaf layer (and
\* so the root), the number of leaves pushed and the overlay as
\* apply_updates_to_root(r2) alone leaves them from the same starting state
\* (for some iteration order of r2's patch): no leaf update is applied twice.
C19_PromotionsCompose ==
    PromotedTwice =>
        LET update == last.pre1.tree_updates[last.root.block_number].updates
        IN  \E order \in Orders({k \in DOMAIN update : is_leaf_update(k)}) :
               LET alone == apply_alone(last.pre1, last.root, order)
               IN  /\ tree = alone.tree
                   /\ num_leaves = alone.num_leaves
                   /\ tree_updates = alone.tree_updates
----------------------------------------------------------------------------
(* Soundness of proofs *)

\* the root arguments of a proof request: None, the canonical root, and the
\* roots of the overlay
SoundnessRoots ==
    {NoRoot} \cup {Root(tree_root, b) : b \in Blocks} \cup StoredRoots

\* C20: in every reachable state (of a process that has not panicked), for
\* every key of the leaf index and every root argument (None, the canonical
\* root, any overlay root), a proof that inclusion_proof returns folds from
\* the leaf to the root the result reports.
C20_ProofsAreSound ==
    last.result # "panic" =>
        \A leaf \in DOMAIN leaves, root \in SoundnessRoots :
            LET res == inclusion_proof(leaf, root)
            IN  res.err = "" => proof_root(res.proof, leaf) = res.root
----------------------------------------------------------------------------
(* Arithmetic of the node-queue loop *)

\* C21: append_updates completes without an arithmetic fault for every valid
\* input: the call does not panic, and the parent computation
\* (node_idx - 1) / 2 of the node-queue loop is never evaluated for a
\* node_idx below 1, so no u32 subtraction underflows while the queue is
\* drained.
C21_NoUnderflowInQueueLoop ==
    last.op \in {"append", "append again"} =>
        /\ last.result # "panic"
        /\ ~last.underflow
====
